---------------------------- MODULE Spec2Model ----------------------------
(***************************************************************************)
(* A model of gnet's frame codecs (codec.go) and of the connection read    *)
(* buffer they work through (connection_windows.go): the scratch buffer    *)
(* c.buffer, the ring c.inboundBuffer and the cached join buffer           *)
(* c.byteBuffer.                                                           *)
(*                                                                         *)
(* Byte slices are sequences of numbers 0..255.  A pointer that may be nil *)
(* (a bytebuffer.ByteBuffer) is a sequence of length <= 1: <<>> is nil and *)
(* <<b>> is a buffer whose bytes are b.  Go's 64-bit int and uint64 are    *)
(* tuples of 8 bytes, least significant first (two's complement), because  *)
(* the length arithmetic of the length-field codec leaves the range of the *)
(* model checker's integers.                                               *)
(***************************************************************************)
EXTENDS Integers, Sequences, FiniteSets, TLC

VARIABLES
    codec,          \* stdConn.codec: the codec and its configuration
    buffer,         \* stdConn.buffer: the scratch, nil outside a read
    inboundBuffer,  \* stdConn.inboundBuffer: the bytes held by the ring
    byteBuffer,     \* stdConn.byteBuffer: the cached join buffer, or nil
    wire,           \* bytes the peer has written that no read has delivered
    sent,           \* the frames the peer has encoded, in order
    raw,            \* how many bytes the peer has written without the encoder
    decoded,        \* the frames c.read() has returned, in order
    pc,             \* where the loop is: "idle", "loop" (in loopRead), "exit", "crashed",
                    \* "accept", "udp", "handler" (in a callback), "closed"
    last,           \* the last call made: its arguments, the buffers before it, its result
    ctx,            \* stdConn.ctx: the user's context, or "nil"
    localAddr,      \* stdConn.localAddr, or "nil"
    remoteAddr,     \* stdConn.remoteAddr, or "nil"
    ringHeld,       \* stdConn.inboundBuffer is not nil: the connection holds a pooled ring
    done,           \* stdConn.done: 0 attached, 1 closed
    ch,             \* eventloop.ch: the messages posted to the loop and not yet received
    callers,        \* the goroutines that call AsyncWrite, Wake and Close: where each is
    conn,           \* stdConn.conn: the calls of Write made on the transport, in order
    loop            \* the loop's record: messages posted to it, messages it executed,
                    \* errors reported to it, callbacks it made

\* the connection's shell, and the handoff to the loop
shell == <<ctx, localAddr, remoteAddr, ringHeld>>
handoff == <<done, ch, callers, conn, loop>>

vars == <<codec, buffer, inboundBuffer, byteBuffer, wire, sent, raw, decoded, pc, last,
          shell, handoff>>

(***************************************************************************)
(* Bounds of the model.                                                    *)
(***************************************************************************)
MaxSends == 2       \* frames the peer encodes on one connection
MaxRaw   == 3       \* bytes the peer writes without the encoder
MaxArg   == 4       \* largest argument a handler hands to ReadN and ShiftN
MaxCalls == 4       \* calls of AsyncWrite, Wake and Close made on one connection
ChanCap  == 2       \* capacity of the loop's channel

(***************************************************************************)
(* Slices.                                                                 *)
(***************************************************************************)
Nil == <<>>
Some(b) == <<b>>
IsNil(p) == Len(p) = 0

Take(s, n) == SubSeq(s, 1, n)
Drop(s, n) == SubSeq(s, n + 1, Len(s))
Min(a, b) == IF a < b THEN a ELSE b

RECURSIVE IndexFrom(_, _, _)
IndexFrom(s, b, i) ==
    IF i > Len(s) THEN -1
    ELSE IF s[i] = b THEN i - 1
    ELSE IndexFrom(s, b, i + 1)

\* bytes.IndexByte: the 0-based index of the first b in s, or -1
IndexByte(s, b) == IndexFrom(s, b, 1)

RECURSIVE Reverse(_)
Reverse(s) == IF s = <<>> THEN <<>> ELSE Append(Reverse(Tail(s)), Head(s))

(***************************************************************************)
(* Go's int (64 bits) and uint64 as 8 bytes, least significant first.      *)
(***************************************************************************)
Pow256(k) == CASE k = 0 -> 1 [] k = 1 -> 256 [] k = 2 -> 65536 [] k = 3 -> 16777216

\* the 64-bit value of a number n, -2^31 < n < 2^31
ToInt64(n) ==
    [i \in 1..8 |-> IF i <= 4 THEN (n \div Pow256(i - 1)) % 256
                    ELSE IF n < 0 THEN 255 ELSE 0]

RECURSIVE AddFrom(_, _, _, _)
AddFrom(a, b, i, carry) ==
    IF i > 8 THEN <<>>
    ELSE LET s == a[i] + b[i] + carry
         IN  <<s % 256>> \o AddFrom(a, b, i + 1, s \div 256)

\* a + b on 64 bits, wrapping as Go's + does
Add64(a, b) == AddFrom(a, b, 1, 0)

IsNeg64(a) == a[8] >= 128
IsZero64(a) == \A i \in 1..8 : a[i] = 0
\* a >= 2^(8k), for a >= 0: some byte above the k lowest is set
GeqPow64(a, k) == \E i \in (k + 1)..8 : a[i] # 0
\* 0 <= a < 2^31: a fits the model checker's numbers
FitsNat(a) == ~GeqPow64(a, 4) /\ a[4] < 128
ToNat(a) == a[1] + a[2] * 256 + a[3] * 65536 + a[4] * 16777216

(***************************************************************************)
(* The connection's read buffer.  An operation takes the connection        *)
(* c = [buffer, inboundBuffer, byteBuffer] and returns the connection      *)
(* after it, with what the call returns.  The record also carries what the *)
(* call in progress has done to memory: gets and puts count its calls of   *)
(* bytebuffer.Get and of bytebuffer.Put with a buffer, reset tells that it *)
(* has reset the scratch.  A slice a call returns comes with mem, the      *)
(* memory behind it: "scratch" (c.buffer's), "join" (the join buffer's),   *)
(* "heap" (memory of its own) or "nil".                                    *)
(***************************************************************************)
Conn == [buffer |-> buffer, inboundBuffer |-> inboundBuffer, byteBuffer |-> byteBuffer,
         gets |-> 0, puts |-> 0, reset |-> FALSE]

\* bytebuffer.Get: a byte buffer leaves the pool
bytebufferGet(c) == [c EXCEPT !.gets = @ + 1]
\* bytebuffer.Put(p): the buffer p points to goes back to the pool; nothing for nil
bytebufferPut(c, p) == IF IsNil(p) THEN c ELSE [c EXCEPT !.puts = @ + 1]

\* ringbuffer.RingBuffer: Length, IsEmpty, LazyRead (the first n bytes, not
\* consumed), Shift (drop n bytes), Reset, Write, WithByteBuffer (a byte buffer
\* taken from the pool, holding the ring's bytes followed by b)
RingLength(r) == Len(r)
RingIsEmpty(r) == Len(r) = 0
RingLazyRead(r, n) == IF n <= 0 THEN <<>> ELSE Take(r, Min(n, Len(r)))
RingShift(r, n) == Drop(r, Min(n, Len(r)))
RingWrite(r, p) == r \o p
RingWithByteBuffer(r, b) == Some(r \o b)

\* stdConn.BufferLength
BufferLength(c) == RingLength(c.inboundBuffer) + Len(c.buffer[1])

\* stdConn.Read
Read(c) ==
    IF RingIsEmpty(c.inboundBuffer)
    THEN IF Len(c.buffer[1]) = 0
         THEN [c |-> c, out |-> <<>>, mem |-> "nil"]
         ELSE [c |-> c, out |-> c.buffer[1], mem |-> "scratch"]
    ELSE LET bb == RingWithByteBuffer(c.inboundBuffer, c.buffer[1])
         IN  [c |-> [bytebufferGet(c) EXCEPT !.byteBuffer = bb], out |-> bb[1],
              mem |-> "join"]

\* stdConn.ResetBuffer
ResetBuffer(c) ==
    [bytebufferPut(c, c.byteBuffer) EXCEPT !.buffer = Some(<<>>), !.reset = TRUE,
                                           !.inboundBuffer = <<>>, !.byteBuffer = Nil]

\* ReadN as it would be with Read in place of LazyRead: the ring's bytes are consumed
ReadN_Consuming(c, n0) ==
    LET inBufferLen == RingLength(c.inboundBuffer)
        totalLen == inBufferLen + Len(c.buffer[1])
        n == IF totalLen < n0 \/ n0 <= 0 THEN totalLen ELSE n0
        bb == Take(c.inboundBuffer \o c.buffer[1], n)
    IN  IF RingIsEmpty(c.inboundBuffer)
        THEN [c |-> c, size |-> n, buf |-> Take(c.buffer[1], n), mem |-> "scratch"]
        ELSE [c |-> [bytebufferGet(c) EXCEPT !.byteBuffer = Some(bb),
                                             !.inboundBuffer = RingShift(c.inboundBuffer, n)],
              size |-> n, buf |-> bb, mem |-> "join"]

\* ReadN as it would be with c.buffer.B[:n] in place of c.buffer.B[:restSize]
ReadN_NoRest(c, n0) ==
    LET inBufferLen == RingLength(c.inboundBuffer)
        totalLen == inBufferLen + Len(c.buffer[1])
        n == IF totalLen < n0 \/ n0 <= 0 THEN totalLen ELSE n0
    IN  IF RingIsEmpty(c.inboundBuffer)
        THEN [c |-> c, size |-> n, buf |-> Take(c.buffer[1], n), mem |-> "scratch"]
        ELSE LET headtail == RingLazyRead(c.inboundBuffer, n)
                 bb == IF inBufferLen >= n THEN headtail
                       ELSE headtail \o Take(c.buffer[1], Min(n, Len(c.buffer[1])))
             IN  [c |-> [bytebufferGet(c) EXCEPT !.byteBuffer = Some(bb)],
                  size |-> n, buf |-> bb, mem |-> "join"]

\* stdConn.ReadN
ReadN(c, n0) ==
    LET inBufferLen == RingLength(c.inboundBuffer)
        tempBufferLen == Len(c.buffer[1])
        totalLen == inBufferLen + tempBufferLen
        n == IF totalLen < n0 \/ n0 <= 0 THEN totalLen ELSE n0
    IN  IF RingIsEmpty(c.inboundBuffer)
        THEN [c |-> c, size |-> n, buf |-> Take(c.buffer[1], n), mem |-> "scratch"]
        ELSE LET headtail == RingLazyRead(c.inboundBuffer, n)
                 bb == IF inBufferLen >= n THEN headtail
                       ELSE headtail \o Take(c.buffer[1], n - inBufferLen)
             IN  [c |-> [bytebufferGet(c) EXCEPT !.byteBuffer = Some(bb)],
                  size |-> n, buf |-> bb, mem |-> "join"]

\* ShiftN as it would be with c.buffer.B[n:] in place of c.buffer.B[restSize:]
ShiftN_NoRest(c, n) ==
    LET inBufferLen == RingLength(c.inboundBuffer)
        tempBufferLen == Len(c.buffer[1])
    IN  IF inBufferLen + tempBufferLen < n \/ n <= 0
        THEN [c |-> ResetBuffer(c), size |-> inBufferLen + tempBufferLen]
        ELSE IF RingIsEmpty(c.inboundBuffer)
        THEN [c |-> [c EXCEPT !.buffer = Some(Drop(c.buffer[1], n))], size |-> n]
        ELSE IF inBufferLen >= n
        THEN [c |-> [bytebufferPut(c, c.byteBuffer) EXCEPT
                         !.byteBuffer = Nil,
                         !.inboundBuffer = RingShift(c.inboundBuffer, n)],
              size |-> n]
        ELSE [c |-> [bytebufferPut(c, c.byteBuffer) EXCEPT
                         !.byteBuffer = Nil,
                         !.inboundBuffer = <<>>,
                         !.buffer = Some(Drop(c.buffer[1], n))],
              size |-> n]

\* stdConn.ShiftN
ShiftN(c, n) ==
    LET inBufferLen == RingLength(c.inboundBuffer)
        tempBufferLen == Len(c.buffer[1])
    IN  IF inBufferLen + tempBufferLen < n \/ n <= 0
        THEN [c |-> ResetBuffer(c), size |-> inBufferLen + tempBufferLen]
        ELSE IF RingIsEmpty(c.inboundBuffer)
        THEN [c |-> [c EXCEPT !.buffer = Some(Drop(c.buffer[1], n))], size |-> n]
        ELSE IF inBufferLen >= n
        THEN [c |-> [bytebufferPut(c, c.byteBuffer) EXCEPT
                         !.byteBuffer = Nil,
                         !.inboundBuffer = RingShift(c.inboundBuffer, n)],
              size |-> n]
        ELSE [c |-> [bytebufferPut(c, c.byteBuffer) EXCEPT
                         !.byteBuffer = Nil,
                         !.inboundBuffer = <<>>,
                         !.buffer = Some(Drop(c.buffer[1], n - inBufferLen))],
              size |-> n]

(***************************************************************************)
(* The codecs.  Encode returns [ok, err, out]; Decode returns the          *)
(* connection after the call and [kind, err, out, mem]: kind is "frame"    *)
(* (out is the frame returned with a nil error, mem the memory behind it), *)
(* "err" (err names the error) or "panic" (the call did not return: a      *)
(* slice expression out of range).                                         *)
(***************************************************************************)
CRLFByte == 10

EncodeOk(out) == [ok |-> TRUE, err |-> "", out |-> out]
EncodeErr(e) == [ok |-> FALSE, err |-> e, out |-> <<>>]
DecodeFrame(c, out, mem) == [c |-> c, kind |-> "frame", err |-> "", out |-> out, mem |-> mem]
DecodeErr(c, e) == [c |-> c, kind |-> "err", err |-> e, out |-> <<>>, mem |-> "nil"]
DecodePanic(c) == [c |-> c, kind |-> "panic", err |-> "", out |-> <<>>, mem |-> "nil"]

\* BuiltInFrameCodec.Encode
BuiltInEncode(cc, buf) == EncodeOk(buf)

\* BuiltInFrameCodec.Decode
BuiltInDecode(cc, c) ==
    LET r == Read(c)
    IN  DecodeFrame(ResetBuffer(r.c), r.out, r.mem)

\* LineBasedFrameCodec.Encode
LineBasedEncode(cc, buf) == EncodeOk(Append(buf, CRLFByte))

\* LineBasedFrameCodec.Decode as it would be with c.ShiftN(idx): the terminator stays
LineBasedDecode_KeepsTerminator(cc, c) ==
    LET r == Read(c)
        idx == IndexByte(r.out, CRLFByte)
    IN  IF idx = -1
        THEN DecodeErr(r.c, "ErrCRLFNotFound")
        ELSE DecodeFrame(ShiftN(r.c, idx).c, Take(r.out, idx), r.mem)

\* LineBasedFrameCodec.Decode
LineBasedDecode(cc, c) ==
    LET r == Read(c)
        idx == IndexByte(r.out, CRLFByte)
    IN  IF idx = -1
        THEN DecodeErr(r.c, "ErrCRLFNotFound")
        ELSE DecodeFrame(ShiftN(r.c, idx + 1).c, Take(r.out, idx), r.mem)

\* DelimiterBasedFrameCodec.Encode
DelimiterBasedEncode(cc, buf) == EncodeOk(Append(buf, cc.delimiter))

\* DelimiterBasedFrameCodec.Decode
DelimiterBasedDecode(cc, c) ==
    LET r == Read(c)
        idx == IndexByte(r.out, cc.delimiter)
    IN  IF idx = -1
        THEN DecodeErr(r.c, "ErrDelimiterNotFound")
        ELSE DecodeFrame(ShiftN(r.c, idx + 1).c, Take(r.out, idx), r.mem)

\* FixedLengthFrameCodec.Encode
FixedLengthEncode(cc, buf) ==
    IF Len(buf) % cc.frameLength # 0
    THEN EncodeErr("ErrInvalidFixedLength")
    ELSE EncodeOk(buf)

\* FixedLengthFrameCodec.Decode
FixedLengthDecode(cc, c) ==
    LET r == ReadN(c, cc.frameLength)
    IN  IF r.size = 0
        THEN DecodeErr(r.c, "ErrUnexpectedEOF")
        ELSE DecodeFrame(ShiftN(r.c, r.size).c, r.buf, r.mem)

\* binary.ByteOrder: PutUint16, PutUint32, PutUint64 of the k low bytes of v
PutUint(byteOrder, v, k) ==
    IF byteOrder = "LittleEndian"
    THEN [i \in 1..k |-> v[i]]
    ELSE [i \in 1..k |-> v[k + 1 - i]]

\* binary.ByteOrder: Uint16, Uint32, Uint64 of b, as a uint64
Uint(byteOrder, b) ==
    LET k == Len(b)
    IN  IF byteOrder = "LittleEndian"
        THEN [i \in 1..8 |-> IF i <= k THEN b[i] ELSE 0]
        ELSE [i \in 1..8 |-> IF i <= k THEN b[k + 1 - i] ELSE 0]

\* writeUint24: b[0], b[1], b[2] are byte(v), byte(v >> 8), byte(v >> 16) under
\* little endian, and the reverse otherwise
writeUint24(byteOrder, v) ==
    IF byteOrder = "LittleEndian"
    THEN <<v[1], v[2], v[3]>>
    ELSE <<v[3], v[2], v[1]>>

\* readUint24
readUint24(byteOrder, b) ==
    IF byteOrder = "LittleEndian"
    THEN <<b[1], b[2], b[3], 0, 0, 0, 0, 0>>
    ELSE <<b[3], b[2], b[1], 0, 0, 0, 0, 0>>

\* LengthFieldBasedFrameCodec.Encode
LengthFieldBasedEncode(cc, buf) ==
    LET ec == cc.encoderConfig
        length0 == Add64(ToInt64(Len(buf)), ec.LengthAdjustment)
        length == IF ec.LengthIncludesLengthFieldLength
                  THEN Add64(length0, ToInt64(ec.LengthFieldLength))
                  ELSE length0
    IN  IF IsNeg64(length) THEN EncodeErr("ErrTooLessLength")
        ELSE CASE ec.LengthFieldLength = 1 ->
                    IF GeqPow64(length, 1)
                    THEN EncodeErr("length does not fit into a byte")
                    ELSE EncodeOk(<<length[1]>> \o buf)
               [] ec.LengthFieldLength = 2 ->
                    IF GeqPow64(length, 2)
                    THEN EncodeErr("length does not fit into a short integer")
                    ELSE EncodeOk(PutUint(ec.ByteOrder, length, 2) \o buf)
               [] ec.LengthFieldLength = 3 ->
                    IF GeqPow64(length, 3)
                    THEN EncodeErr("length does not fit into a medium integer")
                    ELSE EncodeOk(writeUint24(ec.ByteOrder, length) \o buf)
               [] ec.LengthFieldLength = 4 ->
                    EncodeOk(PutUint(ec.ByteOrder, length, 4) \o buf)
               [] ec.LengthFieldLength = 8 ->
                    EncodeOk(PutUint(ec.ByteOrder, length, 8) \o buf)
               [] OTHER -> EncodeErr("ErrUnsupportedLength")

\* innerBuffer.readN, n a 64-bit int: [ok, buf, rest]
readN(in, n) ==
    IF IsNeg64(n) \/ IsZero64(n)
    THEN [ok |-> FALSE, buf |-> <<>>, rest |-> in]
    ELSE IF ~FitsNat(n) \/ ToNat(n) > Len(in)
    THEN [ok |-> FALSE, buf |-> <<>>, rest |-> in]
    ELSE [ok |-> TRUE, buf |-> Take(in, ToNat(n)), rest |-> Drop(in, ToNat(n))]

\* LengthFieldBasedFrameCodec.getUnadjustedFrameLength: [err, lenBuf, frameLength, rest]
getUnadjustedFrameLength(cc, in) ==
    LET w == cc.decoderConfig.LengthFieldLength
        r == readN(in, ToInt64(w))
        eof == [err |-> "ErrUnexpectedEOF", lenBuf |-> <<>>,
                frameLength |-> ToInt64(0), rest |-> in]
        got(v) == [err |-> "", lenBuf |-> r.buf, frameLength |-> v, rest |-> r.rest]
    IN  CASE w = 1 -> IF ~r.ok THEN eof ELSE got(<<r.buf[1], 0, 0, 0, 0, 0, 0, 0>>)
          [] w = 2 -> IF ~r.ok THEN eof ELSE got(Uint(cc.decoderConfig.ByteOrder, r.buf))
          [] w = 3 -> IF ~r.ok THEN eof ELSE got(readUint24(cc.decoderConfig.ByteOrder, r.buf))
          [] w = 4 -> IF ~r.ok THEN eof ELSE got(Uint(cc.decoderConfig.ByteOrder, r.buf))
          [] w = 8 -> IF ~r.ok THEN eof ELSE got(Uint(cc.decoderConfig.ByteOrder, r.buf))
          [] OTHER -> [err |-> "ErrUnsupportedLength", lenBuf |-> <<>>,
                       frameLength |-> ToInt64(0), rest |-> in]

\* LengthFieldBasedFrameCodec.Decode as it would be if it consumed only the
\* bytes it returns: c.ShiftN(len(fullMessage) - InitialBytesToStrip)
LengthFieldBasedDecode_ShiftsReturned(cc, c) ==
    LET dc == cc.decoderConfig
        r == Read(c)
        h == IF dc.LengthFieldOffset > 0
             THEN readN(r.out, ToInt64(dc.LengthFieldOffset))
             ELSE [ok |-> TRUE, buf |-> <<>>, rest |-> r.out]
        l == getUnadjustedFrameLength(cc, h.rest)
        msgLength == Add64(l.frameLength, dc.LengthAdjustment)
        m == readN(l.rest, msgLength)
        fullMessage == h.buf \o l.lenBuf \o m.buf
    IN  IF ~h.ok THEN DecodeErr(r.c, "ErrUnexpectedEOF")
        ELSE IF l.err # "" THEN DecodeErr(r.c, l.err)
        ELSE IF ~m.ok THEN DecodeErr(r.c, "ErrUnexpectedEOF")
        ELSE IF dc.InitialBytesToStrip > Len(fullMessage)
        THEN DecodePanic(ShiftN(r.c, Len(fullMessage)).c)
        ELSE DecodeFrame(ShiftN(r.c, Len(fullMessage) - dc.InitialBytesToStrip).c,
                         Drop(fullMessage, dc.InitialBytesToStrip), "heap")

\* LengthFieldBasedFrameCodec.Decode
LengthFieldBasedDecode(cc, c) ==
    LET dc == cc.decoderConfig
        r == Read(c)
        h == IF dc.LengthFieldOffset > 0
             THEN readN(r.out, ToInt64(dc.LengthFieldOffset))
             ELSE [ok |-> TRUE, buf |-> <<>>, rest |-> r.out]
        l == getUnadjustedFrameLength(cc, h.rest)
        msgLength == Add64(l.frameLength, dc.LengthAdjustment)
        m == readN(l.rest, msgLength)
        fullMessage == h.buf \o l.lenBuf \o m.buf
    IN  IF ~h.ok THEN DecodeErr(r.c, "ErrUnexpectedEOF")
        ELSE IF l.err # "" THEN DecodeErr(r.c, l.err)
        ELSE IF ~m.ok THEN DecodeErr(r.c, "ErrUnexpectedEOF")
        ELSE IF dc.InitialBytesToStrip > Len(fullMessage)
        THEN DecodePanic(ShiftN(r.c, Len(fullMessage)).c)
        ELSE DecodeFrame(ShiftN(r.c, Len(fullMessage)).c,
                         Drop(fullMessage, dc.InitialBytesToStrip), "heap")

\* ICodec.Encode, dispatched on the codec the server was given
Encode(cc, buf) ==
    CASE cc.kind = "BuiltIn" -> BuiltInEncode(cc, buf)
      [] cc.kind = "LineBased" -> LineBasedEncode(cc, buf)
      [] cc.kind = "DelimiterBased" -> DelimiterBasedEncode(cc, buf)
      [] cc.kind = "FixedLength" -> FixedLengthEncode(cc, buf)
      [] cc.kind = "LengthFieldBased" -> LengthFieldBasedEncode(cc, buf)

\* ICodec.Decode
Decode(cc, c) ==
    CASE cc.kind = "BuiltIn" -> BuiltInDecode(cc, c)
      [] cc.kind = "LineBased" -> LineBasedDecode(cc, c)
      [] cc.kind = "DelimiterBased" -> DelimiterBasedDecode(cc, c)
      [] cc.kind = "FixedLength" -> FixedLengthDecode(cc, c)
      [] cc.kind = "LengthFieldBased" -> LengthFieldBasedDecode(cc, c)

(***************************************************************************)
(* The codecs a server is built with.                                      *)
(***************************************************************************)
NoEncoderConfig ==
    [ByteOrder |-> "BigEndian", LengthFieldLength |-> 0, LengthAdjustment |-> ToInt64(0),
     LengthIncludesLengthFieldLength |-> FALSE]
NoDecoderConfig ==
    [ByteOrder |-> "BigEndian", LengthFieldOffset |-> 0, LengthFieldLength |-> 0,
     LengthAdjustment |-> ToInt64(0), InitialBytesToStrip |-> 0]

EncoderConfig(order, w, adj, incl) ==
    [ByteOrder |-> order, LengthFieldLength |-> w, LengthAdjustment |-> adj,
     LengthIncludesLengthFieldLength |-> incl]
DecoderConfig(order, off, w, adj, strip) ==
    [ByteOrder |-> order, LengthFieldOffset |-> off, LengthFieldLength |-> w,
     LengthAdjustment |-> adj, InitialBytesToStrip |-> strip]

Codec(kind, delimiter, frameLength, ec, dc) ==
    [kind |-> kind, delimiter |-> delimiter, frameLength |-> frameLength,
     encoderConfig |-> ec, decoderConfig |-> dc]

NewBuiltInFrameCodec == Codec("BuiltIn", 0, 0, NoEncoderConfig, NoDecoderConfig)
NewLineBasedFrameCodec == Codec("LineBased", 0, 0, NoEncoderConfig, NoDecoderConfig)
NewDelimiterBasedFrameCodec(delimiter) ==
    Codec("DelimiterBased", delimiter, 0, NoEncoderConfig, NoDecoderConfig)
NewFixedLengthFrameCodec(frameLength) ==
    Codec("FixedLength", 0, frameLength, NoEncoderConfig, NoDecoderConfig)
NewLengthFieldBasedFrameCodec(ec, dc) == Codec("LengthFieldBased", 0, 0, ec, dc)

\* 2^32 as a 64-bit int
TwoTo32 == <<0, 0, 0, 0, 1, 0, 0, 0>>

LengthFieldCodecs ==
    { \* big endian, 2-byte field, nothing stripped; and the length field stripped
      NewLengthFieldBasedFrameCodec(EncoderConfig("BigEndian", 2, ToInt64(0), FALSE),
                                    DecoderConfig("BigEndian", 0, 2, ToInt64(0), 0)),
      NewLengthFieldBasedFrameCodec(EncoderConfig("BigEndian", 2, ToInt64(0), FALSE),
                                    DecoderConfig("BigEndian", 0, 2, ToInt64(0), 2)),
      \* the length counts the 4-byte length field
      NewLengthFieldBasedFrameCodec(EncoderConfig("BigEndian", 4, ToInt64(0), TRUE),
                                    DecoderConfig("BigEndian", 0, 4, ToInt64(-4), 4)),
      \* little endian, 3-byte and 8-byte fields
      NewLengthFieldBasedFrameCodec(EncoderConfig("LittleEndian", 3, ToInt64(0), FALSE),
                                    DecoderConfig("LittleEndian", 0, 3, ToInt64(0), 3)),
      NewLengthFieldBasedFrameCodec(EncoderConfig("LittleEndian", 8, ToInt64(0), FALSE),
                                    DecoderConfig("LittleEndian", 0, 8, ToInt64(0), 0)),
      \* a 1-byte header before a 1-byte length field
      NewLengthFieldBasedFrameCodec(EncoderConfig("BigEndian", 1, ToInt64(0), FALSE),
                                    DecoderConfig("BigEndian", 1, 1, ToInt64(0), 0)),
      \* negative encoder adjustment; more bytes to strip than a short frame has
      NewLengthFieldBasedFrameCodec(EncoderConfig("BigEndian", 1, ToInt64(-1), FALSE),
                                    DecoderConfig("BigEndian", 0, 1, ToInt64(1), 5)),
      \* adjustments that push the length past the field's width
      NewLengthFieldBasedFrameCodec(EncoderConfig("LittleEndian", 1, ToInt64(255), FALSE),
                                    DecoderConfig("LittleEndian", 0, 1, ToInt64(-255), 0)),
      NewLengthFieldBasedFrameCodec(EncoderConfig("BigEndian", 2, ToInt64(65535), FALSE),
                                    DecoderConfig("BigEndian", 0, 2, ToInt64(-65535), 0)),
      NewLengthFieldBasedFrameCodec(EncoderConfig("LittleEndian", 3, ToInt64(16777215), FALSE),
                                    DecoderConfig("LittleEndian", 0, 3, ToInt64(-16777215), 0)),
      NewLengthFieldBasedFrameCodec(EncoderConfig("BigEndian", 4, TwoTo32, FALSE),
                                    DecoderConfig("BigEndian", 0, 4, ToInt64(0), 0)),
      \* a width the codec does not support
      NewLengthFieldBasedFrameCodec(EncoderConfig("BigEndian", 5, ToInt64(0), TRUE),
                                    DecoderConfig("BigEndian", 0, 5, ToInt64(-5), 0)) }

Codecs ==
    { NewBuiltInFrameCodec, NewLineBasedFrameCodec, NewDelimiterBasedFrameCodec(0),
      NewFixedLengthFrameCodec(2) } \cup LengthFieldCodecs

\* the frames a peer encodes: empty, "hi", "hello", and one that a decoder with a
\* 1-byte header reads as a length field and a body
Hi == <<104, 105>>
Hello == <<104, 101, 108, 108, 111>>
Frames == { <<>>, Hi, Hello, <<1, 0>> }
\* the bytes a peer writes without the encoder
RawBytes == { 0, 1, CRLFByte }
\* the arguments a caller hands to ReadN and ShiftN
Args == -1..MaxArg

(***************************************************************************)
(* The state machine.                                                      *)
(***************************************************************************)
\* the goroutines that call a connection's AsyncWrite, Wake and Close: the loop
\* itself, from a callback, and two others
Callers == {"loop", "t1", "t2"}

\* a message on the loop's channel: the closure of AsyncWrite ("write", with the
\* encoded bytes it captured), a wakeReq ("wake") or the closure of Close
\* ("close"); from and no tell which call posted it
Msg(type, from, no, buf) == [type |-> type, from |-> from, no |-> no, buf |-> buf]
NoMsg == Msg("", "", 0, <<>>)

\* a caller: outside a call ("out") or at the channel send of its call ("send",
\* with the call's argument and the message it is sending); its calls so far
Caller(p, calls, arg, msg) == [pc |-> p, calls |-> calls, arg |-> arg, msg |-> msg]

\* 1 for a buffer the connection holds, 0 for a nil pointer
Held(h) == IF h THEN 1 ELSE 0

Snapshot(c) ==
    [ring |-> c.inboundBuffer, scratch |-> IF IsNil(c.buffer) THEN <<>> ELSE c.buffer[1],
     join |-> ~IsNil(c.byteBuffer), held |-> ~IsNil(c.buffer), ringHeld |-> ringHeld,
     done |-> done, queued |-> Len(ch), writes |-> Len(conn),
     callbacks |-> loop.callbacks]

Call(op, n, frame, c, kind, err, out, size) ==
    [op |-> op, n |-> n, frame |-> frame, pre |-> Snapshot(c),
     kind |-> kind, err |-> err, out |-> out, size |-> size,
     mem |-> "nil", gets |-> 0, puts |-> 0, reset |-> FALSE, ringPuts |-> 0]

\* the call, with the memory behind the slice it returned and what it did to
\* memory, read from the connection c it left
Memory(call, mem, c) ==
    [call EXCEPT !.mem = mem, !.gets = c.gets, !.puts = c.puts, !.reset = c.reset]

\* newTCPConn: no scratch, an empty ring from the pool, no join buffer
Init ==
    /\ codec \in Codecs
    /\ buffer = Nil
    /\ inboundBuffer = <<>>
    /\ byteBuffer = Nil
    /\ wire = <<>>
    /\ sent = <<>>
    /\ raw = 0
    /\ decoded = <<>>
    /\ pc = "idle"
    /\ ctx = "nil"
    /\ localAddr = "nil"
    /\ remoteAddr = "nil"
    /\ ringHeld = TRUE
    /\ done = 0
    /\ ch = <<>>
    /\ callers = [t \in Callers |-> Caller("out", 0, <<>>, NoMsg)]
    /\ conn = <<>>
    /\ loop = [posted |-> <<>>, executed |-> <<>>, reported |-> <<>>, callbacks |-> 0]
    /\ last = Call("newTCPConn", 0, <<>>, Conn, "", "", <<>>, 0)

\* the peer encodes a frame with the connection's codec and writes it
Send(f) ==
    /\ pc = "idle"
    /\ raw = 0
    /\ Len(sent) < MaxSends
    /\ \E e \in {Encode(codec, f)} :
           /\ wire' = IF e.ok THEN wire \o e.out ELSE wire
           /\ sent' = IF e.ok THEN Append(sent, f) ELSE sent
           /\ last' = Call("Encode", 0, f, Conn, IF e.ok THEN "ok" ELSE "err", e.err, e.out, 0)
    /\ UNCHANGED <<codec, buffer, inboundBuffer, byteBuffer, raw, decoded, pc, shell, handoff>>

\* the peer writes one byte of its own
SendRaw(b) ==
    /\ pc = "idle"
    /\ sent = <<>>
    /\ raw < MaxRaw
    /\ wire' = Append(wire, b)
    /\ raw' = raw + 1
    /\ last' = Call("SendRaw", b, <<>>, Conn, "", "", <<>>, 0)
    /\ UNCHANGED <<codec, buffer, inboundBuffer, byteBuffer, sent, decoded, pc, shell, handoff>>

\* loopRead begins: the k bytes a socket read returned become the scratch
Feed(k) ==
    /\ pc = "idle"
    /\ k \in 1..Len(wire)
    /\ buffer' = Some(Take(wire, k))
    /\ wire' = Drop(wire, k)
    /\ pc' = "loop"
    /\ last' = Call("Feed", k, <<>>, Conn, "", "", <<>>, 0)
    /\ UNCHANGED <<codec, inboundBuffer, byteBuffer, sent, raw, decoded, shell, handoff>>

\* stdConn.read in loopRead's loop: one Decode; a nil frame ends the loop
read ==
    /\ pc = "loop"
    /\ \E d \in {Decode(codec, Conn)} :
       LET isNil == d.kind = "err" \/ (codec.kind = "BuiltIn" /\ d.out = <<>>)
       IN  /\ buffer' = d.c.buffer
           /\ inboundBuffer' = d.c.inboundBuffer
           /\ byteBuffer' = d.c.byteBuffer
           /\ decoded' = IF d.kind = "frame" /\ ~isNil THEN Append(decoded, d.out) ELSE decoded
           /\ pc' = IF d.kind = "panic" THEN "crashed" ELSE IF isNil THEN "exit" ELSE "loop"
           /\ last' = Memory(Call("Decode", 0, <<>>, Conn, d.kind, d.err, d.out, 0),
                             d.mem, d.c)
    /\ UNCHANGED <<codec, wire, sent, raw, shell, handoff>>

\* loopRead ends: what is left of the scratch goes to the ring, the scratch
\* goes back to the pool
EndRead ==
    /\ pc = "exit"
    /\ inboundBuffer' = RingWrite(inboundBuffer, buffer[1])
    /\ buffer' = Nil
    /\ pc' = "idle"
    /\ last' = Call("EndRead", 0, <<>>, Conn, "", "", <<>>, 0)
    /\ UNCHANGED <<codec, byteBuffer, wire, sent, raw, decoded, shell, handoff>>

\* a handler, or a codec of the user's, calls c.Read()
CallRead ==
    /\ pc = "loop"
    /\ \E r \in {Read(Conn)} :
           /\ byteBuffer' = r.c.byteBuffer
           /\ buffer' = r.c.buffer
           /\ inboundBuffer' = r.c.inboundBuffer
           /\ last' = Memory(Call("Read", 0, <<>>, Conn, "ok", "", r.out, 0), r.mem, r.c)
    /\ UNCHANGED <<codec, wire, sent, raw, decoded, pc, shell, handoff>>

\* ... c.ReadN(n)
CallReadN(n) ==
    /\ pc = "loop"
    /\ \E r \in {ReadN(Conn, n)} :
           /\ byteBuffer' = r.c.byteBuffer
           /\ buffer' = r.c.buffer
           /\ inboundBuffer' = r.c.inboundBuffer
           /\ last' = Memory(Call("ReadN", n, <<>>, Conn, "ok", "", r.buf, r.size),
                             r.mem, r.c)
    /\ UNCHANGED <<codec, wire, sent, raw, decoded, pc, shell, handoff>>

\* ... c.ShiftN(n)
CallShiftN(n) ==
    /\ pc = "loop"
    /\ \E r \in {ShiftN(Conn, n)} :
           /\ byteBuffer' = r.c.byteBuffer
           /\ buffer' = r.c.buffer
           /\ inboundBuffer' = r.c.inboundBuffer
           /\ last' = Memory(Call("ShiftN", n, <<>>, Conn, "ok", "", <<>>, r.size),
                             "nil", r.c)
    /\ UNCHANGED <<codec, wire, sent, raw, decoded, pc, shell, handoff>>

\* ... c.ResetBuffer()
CallResetBuffer ==
    /\ pc = "loop"
    /\ \E c \in {ResetBuffer(Conn)} :
           /\ byteBuffer' = c.byteBuffer
           /\ buffer' = c.buffer
           /\ inboundBuffer' = c.inboundBuffer
           /\ last' = Memory(Call("ResetBuffer", 0, <<>>, Conn, "ok", "", <<>>, 0),
                             "nil", c)
    /\ UNCHANGED <<codec, wire, sent, raw, decoded, pc, shell, handoff>>

\* the connection under a peer that writes what it likes, a byte at a time, and
\* callers of the buffer's operations inside the read loop
Next ==
    \/ \E b \in RawBytes : SendRaw(b)
    \/ \E k \in 1..Len(wire) : Feed(k)
    \/ read
    \/ EndRead
    \/ CallRead
    \/ \E n \in Args : CallReadN(n)
    \/ \E n \in Args : CallShiftN(n)
    \/ CallResetBuffer

Spec == Init /\ [][Next]_vars

\* the stream alone: the peer's encoder, the reads and the decode loop
NextStream ==
    \/ \E f \in Frames : Send(f)
    \/ \E k \in 1..Len(wire) : Feed(k)
    \/ read
    \/ EndRead

StreamSpec == Init /\ [][NextStream]_vars

(***************************************************************************)
(* The life of a connection: a stream connection is made by newTCPConn,    *)
(* accepted by its loop, read, and released when the loop closes it; a     *)
(* packet connection is made by newUDPConn for one datagram, handed to the *)
(* handler and released.                                                   *)
(***************************************************************************)
\* the datagrams a packet connection is made for
Packets == { <<1>>, Hi }
\* what a handler puts in the context
Contexts == { "user" }

\* newTCPConn, or newUDPConn(el, localAddr, remoteAddr, buf)
ConnInit ==
    /\ codec \in Codecs
    /\ \/ /\ pc = "accept"
          /\ buffer = Nil
          /\ ringHeld = TRUE
          /\ localAddr = "nil"
          /\ remoteAddr = "nil"
       \/ /\ pc = "udp"
          /\ buffer \in { Some(p) : p \in Packets }
          /\ ringHeld = FALSE
          /\ localAddr = "lnaddr"
          /\ remoteAddr = "peer"
    /\ inboundBuffer = <<>>
    /\ byteBuffer = Nil
    /\ wire = <<>>
    /\ sent = <<>>
    /\ raw = 0
    /\ decoded = <<>>
    /\ ctx = "nil"
    /\ done = 0
    /\ ch = <<>>
    /\ callers = [t \in Callers |-> Caller("out", 0, <<>>, NoMsg)]
    /\ conn = <<>>
    /\ loop = [posted |-> <<>>, executed |-> <<>>, reported |-> <<>>, callbacks |-> 0]
    /\ last = Call(IF pc = "udp" THEN "newUDPConn" ELSE "newTCPConn",
                   0, <<>>, Conn, "", "", <<>>, 0)

\* the loop accepts the connection and sets its addresses
loopAccept ==
    /\ pc = "accept"
    /\ localAddr' = "lnaddr"
    /\ remoteAddr' = "peer"
    /\ pc' = "idle"
    /\ last' = Call("loopAccept", 0, <<>>, Conn, "", "", <<>>, 0)
    /\ UNCHANGED <<codec, buffer, inboundBuffer, byteBuffer, wire, sent, raw, decoded,
                   ctx, ringHeld, handoff>>

\* stdConn.SetContext, called by a handler
SetContext(x) ==
    /\ pc \in {"loop", "udp"}
    /\ ctx # x
    /\ ctx' = x
    /\ last' = Call("SetContext", 0, <<>>, Conn, "", "", <<>>, 0)
    /\ UNCHANGED <<codec, buffer, inboundBuffer, byteBuffer, wire, sent, raw, decoded, pc,
                   localAddr, remoteAddr, ringHeld, handoff>>

\* stdConn.releaseTCP: what it does to the connection
releaseTCP ==
    /\ ctx' = "nil"
    /\ localAddr' = "nil"
    /\ remoteAddr' = "nil"
    /\ inboundBuffer' = <<>>
    /\ ringHeld' = FALSE
    /\ buffer' = Nil
    /\ UNCHANGED byteBuffer

\* stdConn.releaseTCP: the call, with its Puts: prb.Put(c.inboundBuffer) and
\* bytebuffer.Put(c.buffer)
CallReleaseTCP ==
    [Call("releaseTCP", 0, <<>>, Conn, "", "", <<>>, 0)
        EXCEPT !.ringPuts = Held(ringHeld), !.puts = bytebufferPut(Conn, buffer).puts]

\* stdConn.releaseUDP: what it does to the connection
releaseUDP ==
    /\ ctx' = "nil"
    /\ localAddr' = "nil"
    /\ buffer' = Nil
    /\ UNCHANGED <<remoteAddr, inboundBuffer, ringHeld, byteBuffer>>

\* stdConn.releaseUDP: the call, with its Put: bytebuffer.Put(c.buffer)
CallReleaseUDP ==
    [Call("releaseUDP", 0, <<>>, Conn, "", "", <<>>, 0)
        EXCEPT !.puts = bytebufferPut(Conn, buffer).puts]

\* the loop closes a stream connection it is not reading: the connection is
\* marked closed, the handler is told, and its resources are released
loopCloseConn ==
    /\ pc = "idle"
    /\ done = 0
    /\ done' = 1
    /\ releaseTCP
    /\ loop' = [loop EXCEPT !.callbacks = @ + 1]
    /\ pc' = "closed"
    /\ last' = CallReleaseTCP
    /\ UNCHANGED <<codec, wire, sent, raw, decoded, ch, callers, conn>>

\* the loop has handed the datagram to the handler and releases the connection
loopReadUDP ==
    /\ pc = "udp"
    /\ releaseUDP
    /\ pc' = "closed"
    /\ last' = CallReleaseUDP
    /\ UNCHANGED <<codec, wire, sent, raw, decoded, handoff>>

NextConn ==
    \/ loopAccept
    \/ \E x \in Contexts : SetContext(x)
    \/ \E b \in RawBytes : SendRaw(b)
    \/ \E k \in 1..Len(wire) : Feed(k)
    \/ read
    \/ EndRead
    \/ loopCloseConn
    \/ loopReadUDP

ConnSpec == ConnInit /\ [][NextConn]_vars

(***************************************************************************)
(* The handoff to the loop: AsyncWrite, Wake and Close, called from other  *)
(* goroutines and from the loop's own callbacks, send on the loop's        *)
(* channel; the loop receives the messages one at a time and executes      *)
(* them.                                                                   *)
(***************************************************************************)
\* the frames handed to AsyncWrite
WriteFrames == { <<>>, Hi }
\* the codec of the server: a 1-byte length field holding the length less one,
\* so it prefixes "hi" with 01 and refuses the empty frame
LoopCodecs ==
    { NewLengthFieldBasedFrameCodec(EncoderConfig("BigEndian", 1, ToInt64(-1), FALSE),
                                    DecoderConfig("BigEndian", 0, 1, ToInt64(1), 5)) }

LoopInit == Init /\ codec \in LoopCodecs

\* a send on a channel with room, and a receive: first in, first out
chanSend(q, m) == Append(q, m)
chanRecv_Last(q) == [msg |-> q[Len(q)], rest |-> SubSeq(q, 1, Len(q) - 1)]
chanRecv(q) == [msg |-> Head(q), rest |-> Tail(q)]

\* AsyncWrite as it would be if the closure captured buf, not encodedBuf
AsyncWrite_Unencoded(cc, t, no, buf) ==
    LET e == Encode(cc, buf)
    IN  IF e.ok
        THEN [send |-> TRUE, msg |-> Msg("write", t, no, buf), err |-> ""]
        ELSE [send |-> FALSE, msg |-> NoMsg, err |-> e.err]

\* stdConn.AsyncWrite(buf), call no of caller t, up to the channel send: the
\* closure it is about to send, or the error it returns at once
AsyncWrite(cc, t, no, buf) ==
    LET e == Encode(cc, buf)
    IN  IF e.ok
        THEN [send |-> TRUE, msg |-> Msg("write", t, no, e.out), err |-> ""]
        ELSE [send |-> FALSE, msg |-> NoMsg, err |-> e.err]

\* stdConn.Wake, up to the channel send
Wake(t, no) == [send |-> TRUE, msg |-> Msg("wake", t, no, <<>>), err |-> ""]

\* stdConn.Close, up to the channel send
Close(t, no) == [send |-> TRUE, msg |-> Msg("close", t, no, <<>>), err |-> ""]

\* the closure AsyncWrite sent, run by the loop: it calls c.conn.Write, drops
\* what Write returns, and returns nil; ok tells whether the transport took the bytes
WriteClosure(m, ok) ==
    [write |-> [from |-> m.from, no |-> m.no, buf |-> m.buf, ok |-> ok], err |-> "nil"]

Calls == callers["loop"].calls + callers["t1"].calls + callers["t2"].calls

\* caller t may begin a call: the loop only from a callback
CanCall(t) ==
    /\ callers[t].pc = "out"
    /\ Calls < MaxCalls
    /\ t = "loop" => pc = "handler"

\* caller t begins call r of op with argument arg: it returns r.err at once, or
\* comes to its channel send
Begin(t, op, arg, r) ==
    /\ callers' = [callers EXCEPT ![t] =
                      IF r.send THEN Caller("send", @.calls + 1, arg, r.msg)
                      ELSE Caller("out", @.calls + 1, <<>>, NoMsg)]
    /\ last' = Call(op, callers[t].calls + 1, arg, Conn, t, r.err, r.msg.buf, 0)
    /\ UNCHANGED <<codec, buffer, inboundBuffer, byteBuffer, wire, sent, raw, decoded, pc,
                   shell, done, ch, conn, loop>>

CallAsyncWrite(t, f) ==
    /\ CanCall(t)
    /\ \E r \in {AsyncWrite(codec, t, callers[t].calls + 1, f)} : Begin(t, "AsyncWrite", f, r)

CallWake(t) ==
    /\ CanCall(t)
    /\ \E r \in {Wake(t, callers[t].calls + 1)} : Begin(t, "Wake", <<>>, r)

CallClose(t) ==
    /\ CanCall(t)
    /\ \E r \in {Close(t, callers[t].calls + 1)} : Begin(t, "Close", <<>>, r)

\* c.loop.ch <- m: the send goes through when the channel has room, and the
\* call returns nil
Post(t) ==
    /\ callers[t].pc = "send"
    /\ Len(ch) < ChanCap
    /\ ch' = chanSend(ch, callers[t].msg)
    /\ loop' = [loop EXCEPT !.posted = Append(@, callers[t].msg)]
    /\ callers' = [callers EXCEPT ![t] = Caller("out", @.calls, <<>>, NoMsg)]
    /\ last' = Call("Post", callers[t].msg.no, callers[t].arg, Conn, t, "nil",
                    callers[t].msg.buf, 0)
    /\ UNCHANGED <<codec, buffer, inboundBuffer, byteBuffer, wire, sent, raw, decoded, pc,
                   shell, done, conn>>

\* the loop receives a write closure and runs it; an error the closure
\* returns goes to the loop
ExecWrite(ok) ==
    /\ pc = "idle"
    /\ ch # <<>>
    /\ \E d \in {chanRecv(ch)} :
         /\ d.msg.type = "write"
         /\ ch' = d.rest
         /\ \E r \in {WriteClosure(d.msg, ok)} :
              /\ conn' = Append(conn, r.write)
              /\ loop' = [loop EXCEPT
                             !.executed = Append(@, d.msg),
                             !.reported = IF r.err = "nil" THEN @
                                          ELSE Append(@, <<d.msg.from, d.msg.no>>)]
         /\ last' = Call("ExecWrite", d.msg.no, d.msg.buf, Conn, d.msg.from, "", <<>>, 0)
    /\ UNCHANGED <<codec, buffer, inboundBuffer, byteBuffer, wire, sent, raw, decoded, pc,
                   shell, done, callers>>

\* the loop receives a wakeReq: the handler's wake callback runs, unless the
\* connection is closed
ExecWake ==
    /\ pc = "idle"
    /\ ch # <<>>
    /\ \E d \in {chanRecv(ch)} :
         /\ d.msg.type = "wake"
         /\ ch' = d.rest
         /\ loop' = [loop EXCEPT !.executed = Append(@, d.msg),
                                 !.callbacks = IF done = 1 THEN @ ELSE @ + 1]
         /\ pc' = IF done = 1 THEN "idle" ELSE "handler"
         /\ last' = Call("ExecWake", d.msg.no, <<>>, Conn, d.msg.from, "", <<>>, 0)
    /\ UNCHANGED <<codec, buffer, inboundBuffer, byteBuffer, wire, sent, raw, decoded,
                   shell, done, callers, conn>>

\* the loop receives the closure of Close and runs it: the connection is
\* closed and released, unless it is closed already
ExecClose ==
    /\ pc = "idle"
    /\ ch # <<>>
    /\ \E d \in {chanRecv(ch)} :
         /\ d.msg.type = "close"
         /\ ch' = d.rest
         /\ IF done = 1
            THEN /\ loop' = [loop EXCEPT !.executed = Append(@, d.msg)]
                 /\ last' = Call("ExecClose", d.msg.no, <<>>, Conn, d.msg.from, "", <<>>, 0)
                 /\ UNCHANGED <<buffer, inboundBuffer, byteBuffer, shell, done>>
            ELSE /\ done' = 1
                 /\ releaseTCP
                 /\ loop' = [loop EXCEPT !.executed = Append(@, d.msg),
                                         !.callbacks = @ + 1]
                 /\ last' = [CallReleaseTCP EXCEPT !.op = "ExecClose", !.n = d.msg.no,
                                                   !.kind = d.msg.from]
    /\ UNCHANGED <<codec, wire, sent, raw, decoded, pc, callers, conn>>

\* the wake callback returns and the loop goes back to its channel
Return ==
    /\ pc = "handler"
    /\ callers["loop"].pc = "out"
    /\ pc' = "idle"
    /\ UNCHANGED <<codec, buffer, inboundBuffer, byteBuffer, wire, sent, raw, decoded,
                   last, shell, handoff>>

NextLoop ==
    \/ \E t \in Callers, f \in WriteFrames : CallAsyncWrite(t, f)
    \/ \E t \in Callers : CallWake(t)
    \/ \E t \in Callers : CallClose(t)
    \/ \E t \in Callers : Post(t)
    \/ \E ok \in BOOLEAN : ExecWrite(ok)
    \/ ExecWake
    \/ ExecClose
    \/ Return

LoopSpec == LoopInit /\ [][NextLoop]_vars

(***************************************************************************)
(* The claims.  A claim about one call reads the call from last: its       *)
(* argument, the ring and the scratch before it, and what it returned; the *)
(* buffers after it are the state's.                                       *)
(***************************************************************************)
Before == last.pre.ring \o last.pre.scratch
After == inboundBuffer \o (IF IsNil(buffer) THEN <<>> ELSE buffer[1])
ConnBefore == [buffer |-> Some(last.pre.scratch), inboundBuffer |-> last.pre.ring,
               byteBuffer |-> Nil, gets |-> 0, puts |-> 0, reset |-> FALSE]

\* C5: ShiftN(k) with 0 < k <= T returns k and removes the first k bytes of
\* ring ++ scratch, the ring's bytes first and the scratch's only once the ring
\* is exhausted, leaving BufferLength T - k; with k <= 0 or k > T it empties
\* the ring and the scratch, leaves BufferLength 0 and returns T.
C5_ShiftN ==
    last.op = "ShiftN" =>
        LET T == Len(Before)
            k == last.n
            fromRing == Min(k, Len(last.pre.ring))
        IN  IF 0 < k /\ k <= T
            THEN /\ last.size = k
                 /\ After = Drop(Before, k)
                 /\ inboundBuffer = Drop(last.pre.ring, fromRing)
                 /\ buffer[1] = Drop(last.pre.scratch, k - fromRing)
                 /\ BufferLength(Conn) = T - k
            ELSE /\ last.size = T
                 /\ inboundBuffer = <<>>
                 /\ buffer[1] = <<>>
                 /\ BufferLength(Conn) = 0

\* a ShiftN that takes the whole ring and part of the scratch
C5_Witness ==
    /\ last.op = "ShiftN"
    /\ 0 < Len(last.pre.ring)
    /\ Len(last.pre.ring) < last.n
    /\ last.n < Len(Before)
    /\ After # <<>>

\* C6: Read and ReadN leave the ring's content, the scratch's content and
\* BufferLength as they were, whatever the argument and the state.
C6_PeekKeepsBuffer ==
    last.op \in {"Read", "ReadN"} =>
        /\ inboundBuffer = last.pre.ring
        /\ buffer[1] = last.pre.scratch
        /\ BufferLength(Conn) = Len(Before)

\* a ReadN across the ring and the scratch, which caches a join buffer
C6_Witness ==
    /\ last.op = "ReadN"
    /\ 0 < Len(last.pre.ring)
    /\ Len(last.pre.ring) < last.n
    /\ last.n <= Len(Before)
    /\ ~IsNil(byteBuffer)

\* C7: ReadN(n) returns (n, the first n bytes of ring ++ scratch) when
\* 0 < n <= T and (T, all of ring ++ scratch) when n <= 0 or n > T; the bytes
\* are the first size bytes of what Read returns in the same state.
C7_ReadN ==
    last.op = "ReadN" =>
        LET T == Len(Before)
            n == last.n
        IN  /\ (0 < n /\ n <= T) => (last.size = n /\ last.out = Take(Before, n))
            /\ (n <= 0 \/ n > T) => (last.size = T /\ last.out = Before)
            /\ last.out = Take(Read(ConnBefore).out, last.size)

\* a ReadN whose bytes straddle the ring and the scratch, and end inside the scratch
C7_Witness ==
    /\ last.op = "ReadN"
    /\ 0 < Len(last.pre.ring)
    /\ Len(last.pre.ring) < last.n
    /\ last.n < Len(Before)
    /\ last.out # <<>>

\* C3: FixedLengthFrameCodec.Decode with fewer than frameLength bytes buffered
\* fails with ErrUnexpectedEOF and leaves the buffers and BufferLength as they
\* were; a frame it returns has exactly frameLength bytes, and at least that
\* many were buffered.
C3_FixedLengthShortRead ==
    (last.op = "Decode" /\ codec.kind = "FixedLength") =>
        /\ Len(Before) < codec.frameLength =>
              /\ last.kind = "err"
              /\ last.err = "ErrUnexpectedEOF"
              /\ inboundBuffer = last.pre.ring
              /\ buffer[1] = last.pre.scratch
              /\ BufferLength(Conn) = Len(Before)
        /\ last.kind = "frame" =>
              /\ Len(Before) >= codec.frameLength
              /\ Len(last.out) = codec.frameLength

\* the bytes one frame takes on the wire, from the frame Decode returned
WireLength(cc, frame) ==
    CASE cc.kind \in {"LineBased", "DelimiterBased"} -> Len(frame) + 1
      [] cc.kind = "LengthFieldBased" -> Len(frame) + cc.decoderConfig.InitialBytesToStrip
      [] OTHER -> Len(frame)

\* C4: one Decode either returns a frame and advances the buffer by the frame's
\* wire length, or returns an error and leaves the ring, the scratch and
\* BufferLength as they were; it never consumes bytes without returning a frame.
C4_DecodeAtomic ==
    last.op = "Decode" =>
        \/ /\ last.kind = "frame"
           /\ WireLength(codec, last.out) <= Len(Before)
           /\ After = Drop(Before, WireLength(codec, last.out))
        \/ /\ last.kind = "err"
           /\ inboundBuffer = last.pre.ring
           /\ buffer[1] = last.pre.scratch
           /\ BufferLength(Conn) = Len(Before)

Terminator(cc) == IF cc.kind = "LineBased" THEN CRLFByte ELSE cc.delimiter
NotFound(cc) == IF cc.kind = "LineBased" THEN "ErrCRLFNotFound" ELSE "ErrDelimiterNotFound"
\* byte i (from 0) of s is the first t in s
FirstAt(s, t, i) == s[i + 1] = t /\ \A j \in 1..i : s[j] # t

\* C9: the line and delimiter codecs fail with the not-found error and consume
\* nothing when ring ++ scratch holds no terminator; otherwise they return the
\* bytes before the first terminator and consume those and the terminator, so
\* what follows it stays buffered.
C9_FirstTerminator ==
    (last.op = "Decode" /\ codec.kind \in {"LineBased", "DelimiterBased"}) =>
        IF \A j \in 1..Len(Before) : Before[j] # Terminator(codec)
        THEN /\ last.kind = "err"
             /\ last.err = NotFound(codec)
             /\ inboundBuffer = last.pre.ring
             /\ buffer[1] = last.pre.scratch
        ELSE \E i \in 0..(Len(Before) - 1) :
                /\ FirstAt(Before, Terminator(codec), i)
                /\ last.kind = "frame"
                /\ last.out = Take(Before, i)
                /\ After = Drop(Before, i + 1)
                /\ BufferLength(Conn) = Len(Before) - (i + 1)

\* a Decode that finds the terminator in the scratch, after bytes held in the
\* ring, and leaves bytes behind it
C9_Witness ==
    /\ last.op = "Decode"
    /\ codec.kind \in {"LineBased", "DelimiterBased"}
    /\ last.kind = "frame"
    /\ last.pre.ring # <<>>
    /\ Len(last.out) >= Len(last.pre.ring)
    /\ After # <<>>

(***************************************************************************)
(* Claims about a stream of encoded frames.                                *)
(***************************************************************************)
SupportedWidths == {1, 2, 3, 4, 8}

\* the frames of a codec: a line holds no terminator, a fixed-length frame has
\* the codec's length
ValidFrame(cc, f) ==
    CASE cc.kind \in {"LineBased", "DelimiterBased"} ->
            \A j \in 1..Len(f) : f[j] # Terminator(cc)
      [] cc.kind = "FixedLength" -> Len(f) = cc.frameLength
      [] OTHER -> TRUE

\* the decoder's configuration undoes the encoder's: the same field at offset 0,
\* adjustments that cancel, and no more stripped than the length field
Symmetric(cc) ==
    cc.kind = "LengthFieldBased" =>
        LET ec == cc.encoderConfig
            dc == cc.decoderConfig
            added == IF ec.LengthIncludesLengthFieldLength
                     THEN Add64(ec.LengthAdjustment, ToInt64(ec.LengthFieldLength))
                     ELSE ec.LengthAdjustment
        IN  /\ ec.LengthFieldLength \in SupportedWidths
            /\ dc.LengthFieldLength = ec.LengthFieldLength
            /\ dc.ByteOrder = ec.ByteOrder
            /\ dc.LengthFieldOffset = 0
            /\ IsZero64(Add64(added, dc.LengthAdjustment))
            /\ dc.InitialBytesToStrip <= dc.LengthFieldLength

\* what Decode is to return for frame f: f, after the length bytes that
\* InitialBytesToStrip leaves
Expected(cc, f) ==
    IF cc.kind = "LengthFieldBased"
    THEN Drop(Encode(cc, f).out, cc.decoderConfig.InitialBytesToStrip)
    ELSE f

\* C1: however the wire bytes of a list of encoded frames are cut into chunks,
\* feeding the chunks and decoding after each until Decode fails yields the
\* frames, in order, and nothing else (pass-through apart).
C1_Chunking ==
    (/\ pc = "exit"
     /\ wire = <<>>
     /\ codec.kind # "BuiltIn"
     /\ Symmetric(codec)
     /\ \A i \in 1..Len(sent) : ValidFrame(codec, sent[i]))
    => decoded = [i \in 1..Len(sent) |-> Expected(codec, sent[i])]

\* C2: with Encode(f) alone in the buffer, one Decode returns f (after the
\* length bytes the decoder does not strip) and leaves the buffer empty.
C2_RoundTrip ==
    \A f \in Frames :
        (/\ last.op = "Decode"
         /\ last.pre.ring = <<>>
         /\ Symmetric(codec)
         /\ ValidFrame(codec, f)
         /\ Encode(codec, f).ok
         /\ last.pre.scratch = Encode(codec, f).out)
        => /\ last.kind = "frame"
           /\ last.out = Expected(codec, f)
           /\ After = <<>>
           /\ BufferLength(Conn) = 0

RECURSIVE SumLE(_, _)
\* the number whose bytes, least significant first, are le[i..]; 4 bytes at most
SumLE(le, i) ==
    IF i > Len(le) \/ i > 4 THEN 0 ELSE le[i] * Pow256(i - 1) + SumLE(le, i + 1)

\* the number a 64-bit int of small magnitude stands for
Num64(a) ==
    IF IsNeg64(a)
    THEN -(1 + SumLE([i \in 1..4 |-> 255 - a[i]], 1))
    ELSE SumLE(a, 1)

ScenarioCodec(strip) ==
    NewLengthFieldBasedFrameCodec(EncoderConfig("BigEndian", 2, ToInt64(0), FALSE),
                                  DecoderConfig("BigEndian", 0, 2, ToInt64(0), strip))

\* C8: a LengthFieldBasedFrameCodec.Decode that succeeds has read the field F at
\* LengthFieldOffset, consumes LengthFieldOffset + LengthFieldLength + F +
\* LengthAdjustment bytes, and returns those bytes without the first
\* InitialBytesToStrip; 00 02 "hi" 00 05 "hello" decodes to the two frames with
\* their length fields, or without them when 2 bytes are stripped, and leaves
\* nothing buffered.
C8_LengthFieldDecode ==
    /\ (last.op = "Decode" /\ codec.kind = "LengthFieldBased" /\ last.kind = "frame") =>
          LET dc == codec.decoderConfig
              off == dc.LengthFieldOffset
              w == dc.LengthFieldLength
              field == SubSeq(Before, off + 1, off + w)
              le == IF dc.ByteOrder = "LittleEndian" THEN field ELSE Reverse(field)
              full == off + w + SumLE(le, 1) + Num64(dc.LengthAdjustment)
          IN  /\ off + w <= Len(Before)
              /\ \A i \in 5..w : le[i] = 0
              /\ full <= Len(Before)
              /\ After = Drop(Before, full)
              /\ BufferLength(Conn) = Len(Before) - full
              /\ last.out = Drop(Take(Before, full), dc.InitialBytesToStrip)
    /\ (codec = ScenarioCodec(0) /\ sent = <<Hi, Hello>> /\ wire = <<>> /\ pc = "exit") =>
          /\ decoded = << <<0, 2>> \o Hi, <<0, 5>> \o Hello >>
          /\ After = <<>>
    /\ (codec = ScenarioCodec(2) /\ sent = <<Hi, Hello>> /\ wire = <<>> /\ pc = "exit") =>
          /\ decoded = <<Hi, Hello>>
          /\ After = <<>>

\* "hi" and "hello" decoded with the length fields stripped, the second from
\* bytes that lay partly in the ring
C8_Witness ==
    /\ codec = ScenarioCodec(2)
    /\ last.op = "Decode"
    /\ last.kind = "frame"
    /\ last.pre.ring # <<>>
    /\ decoded = <<Hi, Hello>>
    /\ BufferLength(Conn) = 0

\* the bytes of a length field, as the uint64 they hold
FieldValue(order, b) ==
    LET le == IF order = "LittleEndian" THEN b ELSE Reverse(b)
    IN  [i \in 1..8 |-> IF i <= Len(le) THEN le[i] ELSE 0]

\* C10: LengthFieldBasedFrameCodec.Encode, when it succeeds, returns
\* LengthFieldLength bytes holding L = len(frame) + LengthAdjustment (+
\* LengthFieldLength when the length includes it) in the configured byte order,
\* then the frame; it fails with ErrTooLessLength when L < 0 and with
\* ErrUnsupportedLength when the width is none of 1, 2, 3, 4, 8.
C10_Encode ==
    (last.op = "Encode" /\ codec.kind = "LengthFieldBased") =>
        LET ec == codec.encoderConfig
            w == ec.LengthFieldLength
            L0 == Add64(ToInt64(Len(last.frame)), ec.LengthAdjustment)
            L == IF ec.LengthIncludesLengthFieldLength THEN Add64(L0, ToInt64(w)) ELSE L0
        IN  /\ last.kind = "ok" =>
                /\ Len(last.out) = w + Len(last.frame)
                /\ Drop(last.out, w) = last.frame
                /\ FieldValue(ec.ByteOrder, Take(last.out, w)) = L
            /\ IsNeg64(L) => (last.kind = "err" /\ last.err = "ErrTooLessLength")
            /\ (~IsNeg64(L) /\ w \notin SupportedWidths) =>
                  (last.kind = "err" /\ last.err = "ErrUnsupportedLength")

\* the length LengthFieldBasedFrameCodec.Encode computes for frame f, as a 64-bit int
EncodedLength(cc, f) ==
    LET ec == cc.encoderConfig
        L0 == Add64(ToInt64(Len(f)), ec.LengthAdjustment)
    IN  IF ec.LengthIncludesLengthFieldLength
        THEN Add64(L0, ToInt64(ec.LengthFieldLength))
        ELSE L0

\* C11: for every supported width w, LengthFieldBasedFrameCodec.Encode fails,
\* with no output, when the length L is 2^(8w) or more; it never writes a length
\* field holding L modulo 2^(8w).
C11_RangeCheck ==
    (/\ last.op = "Encode"
     /\ codec.kind = "LengthFieldBased"
     /\ codec.encoderConfig.LengthFieldLength \in SupportedWidths
     /\ ~IsNeg64(EncodedLength(codec, last.frame))
     /\ GeqPow64(EncodedLength(codec, last.frame), codec.encoderConfig.LengthFieldLength))
    => (last.kind = "err" /\ last.out = <<>>)

\* the buffer before the call begins with a whole frame of the length-field
\* decoder: the header, the length field, and F + LengthAdjustment more bytes
\* (none, when that number is zero or negative)
HoldsWholeFrame(cc, b) ==
    LET dc == cc.decoderConfig
        off == dc.LengthFieldOffset
        w == dc.LengthFieldLength
        field == SubSeq(b, off + 1, off + w)
        le == IF dc.ByteOrder = "LittleEndian" THEN field ELSE Reverse(field)
    IN  /\ w \in SupportedWidths
        /\ off + w <= Len(b)
        /\ \A i \in 5..w : le[i] = 0
        /\ off + w + SumLE(le, 1) + Num64(dc.LengthAdjustment) <= Len(b)

\* C17: LengthFieldBasedFrameCodec.Decode reports ErrUnexpectedEOF only when the
\* buffer holds fewer bytes than the frame at its head takes; with a whole
\* frame buffered, one of body length zero or less included, it does not ask for
\* more data.
C17_EOFOnlyWhenShort ==
    (/\ last.op = "Decode"
     /\ codec.kind = "LengthFieldBased"
     /\ HoldsWholeFrame(codec, Before))
    => ~(last.kind = "err" /\ last.err = "ErrUnexpectedEOF")

(***************************************************************************)
(* Claims about the memory behind the buffers.                             *)
(***************************************************************************)
\* C19: over every Read, ReadN, ShiftN, ResetBuffer and Decode, the join buffers
\* taken from the pool are accounted for: the one held before the call and those
\* the call acquired are, after it, either the one c.byteBuffer holds or back in
\* the pool; none is dropped without a Put and none is Put twice.
C19_JoinAccounting ==
    last.op \in {"Read", "ReadN", "ShiftN", "ResetBuffer", "Decode"} =>
        Held(last.pre.join) + last.gets - last.puts = Held(~IsNil(byteBuffer))

\* C20: when Decode returns a frame, the memory behind the frame is not a join
\* buffer that the call has put back into the pool, nor a scratch that the call
\* has reset.
C20_FrameMemory ==
    (last.op = "Decode" /\ last.kind = "frame" /\ last.out # <<>>) =>
        /\ ~(last.mem = "join" /\ last.puts > 0)
        /\ ~(last.mem = "scratch" /\ last.reset)

\* C12: when a connection has been released, by releaseTCP or by releaseUDP, in
\* whatever state it was: its scratch, its ring and its join buffer have gone
\* back to their pools and the connection points to none of them, and its
\* context, local address and remote address are nil.
C12_Released ==
    last.op \in {"releaseTCP", "releaseUDP"} =>
        /\ IsNil(buffer)
        /\ IsNil(byteBuffer)
        /\ ~ringHeld
        /\ last.puts = Held(last.pre.held) + Held(last.pre.join)
        /\ last.ringPuts = Held(last.pre.ringHeld)
        /\ ctx = "nil"
        /\ localAddr = "nil"
        /\ remoteAddr = "nil"


\* the messages of caller t in the sequence q, in q's order
From(t, q) == LET Test(m) == m.from = t IN SelectSeq(q, Test)
\* how many messages of call n of caller t the sequence q holds
Count(t, n, q) == Cardinality({ i \in DOMAIN q : q[i].from = t /\ q[i].no = n })

\* C13: AsyncWrite encodes the frame with the codec in the caller's goroutine
\* before anything is posted: an Encode error is returned to the caller at
\* once and nothing is posted or written; otherwise exactly one message with
\* the encoded bytes is posted to the loop's queue and the call returns nil
\* without having written, the write happening only when the loop executes
\* the message.
C13_AsyncWrite ==
    /\ last.op = "AsyncWrite" =>
          LET t == last.kind
              e == Encode(codec, last.frame)
          IN  /\ Len(ch) = last.pre.queued
              /\ Len(conn) = last.pre.writes
              /\ Count(t, last.n, loop.posted) = 0
              /\ IF e.ok
                 THEN /\ callers[t].pc = "send"
                      /\ callers[t].msg = Msg("write", t, last.n, e.out)
                 ELSE /\ callers[t].pc = "out"
                      /\ last.err = e.err
    /\ (last.op = "Post" /\ ch[Len(ch)].type = "write") =>
          LET t == last.kind
              e == Encode(codec, last.frame)
          IN  /\ e.ok
              /\ Len(ch) = last.pre.queued + 1
              /\ ch[Len(ch)] = Msg("write", t, last.n, e.out)
              /\ Count(t, last.n, loop.posted) = 1
              /\ Len(conn) = last.pre.writes
              /\ last.err = "nil"
              /\ callers[t].pc = "out"
    /\ \A i \in DOMAIN conn :
          /\ Count(conn[i].from, conn[i].no, loop.executed) = 1
          /\ \E k \in DOMAIN loop.executed :
                loop.executed[k] = Msg("write", conn[i].from, conn[i].no, conn[i].buf)

\* a write was posted and executed by the loop, a message is waiting in the
\* queue, and an AsyncWrite of a frame the codec refuses has just returned
\* Encode's error
C13_Witness ==
    /\ last.op = "AsyncWrite"
    /\ last.err = "ErrTooLessLength"
    /\ ch # <<>>
    /\ \E i \in DOMAIN conn : conn[i].buf = <<1>> \o Hi


\* the call numbers of a sequence of messages or writes
Numbers(q) == [i \in DOMAIN q |-> q[i].no]
\* the write messages of the sequence q, as the writes they ask for
Writes(q) == LET Test(m) == m.type = "write" IN SelectSeq(q, Test)

\* C14: the messages of one caller are executed by the loop in the order that
\* caller posted them, each exactly once: none is lost and none is executed
\* twice, and the transport sees that caller's writes in the same order.
C14_SenderOrder ==
    \A t \in Callers :
        /\ From(t, loop.executed \o ch) = From(t, loop.posted)
        /\ \A i, j \in DOMAIN From(t, loop.posted) :
              i < j => From(t, loop.posted)[i].no < From(t, loop.posted)[j].no
        /\ Numbers(From(t, conn)) = Numbers(Writes(From(t, loop.executed)))
        /\ \A i \in DOMAIN From(t, conn) :
              From(t, conn)[i].buf = Writes(From(t, loop.executed))[i].buf

\* the loop has executed two messages of one caller with a message of another
\* caller between them, and two of them were writes
C14_Witness ==
    /\ \E i, j, k \in DOMAIN loop.executed :
          /\ i < j /\ j < k
          /\ loop.executed[i].from = loop.executed[k].from
          /\ loop.executed[j].from # loop.executed[i].from
    /\ Len(conn) >= 2
    /\ ch # <<>>


\* C15: once the loop has processed the close of the connection, a message it
\* dequeues afterwards (a write, a wake, a second close) is drained without
\* effect: no transport write is attempted, no buffer is touched or released
\* again, and no callback is invoked.
C15_ClosedIgnores ==
    (last.op \in {"ExecWrite", "ExecWake", "ExecClose"} /\ last.pre.done = 1) =>
        /\ Len(ch) = last.pre.queued - 1
        /\ Len(conn) = last.pre.writes
        /\ loop.callbacks = last.pre.callbacks
        /\ last.puts = 0 /\ last.ringPuts = 0
        /\ Snapshot(Conn).held = last.pre.held
        /\ Snapshot(Conn).ringHeld = last.pre.ringHeld
        /\ Snapshot(Conn).join = last.pre.join

\* the transport writes that failed
Failed == { i \in DOMAIN conn : ~conn[i].ok }

\* C16: when the loop executes a write message and the transport write fails,
\* the failure is reported to the loop, and the AsyncWrite call that posted the
\* message had returned nil.
C16_WriteErrorReported ==
    /\ \A i \in Failed :
          \E k \in DOMAIN loop.reported : loop.reported[k] = <<conn[i].from, conn[i].no>>
    /\ (last.op = "Post") => last.err = "nil"

\* C18: the loop is never blocked posting to its own queue: a callback
\* running on the loop never stands at a channel send while the channel is
\* full, for then nothing can receive and the call cannot return.
C18_NeverSelfBlocked ==
    ~(pc = "handler" /\ callers["loop"].pc = "send" /\ Len(ch) >= ChanCap)

=============================================================================
